---- MODULE Spec2Model ----
(***************************************************************************)
(* The profile-edit route (loader and action) and the new-note route       *)
(* (loader) of the web application, as request handlers running against    *)
(* one user table.  A handler is cut at the awaits that touch the table:   *)
(* what runs between two of them is one step.  Spec serves the requests    *)
(* one after the other, with every form payload; RaceSpec lets two         *)
(* requests be in flight together, with fewer payloads.                    *)
(***************************************************************************)
EXTENDS Naturals, Sequences, FiniteSets, TLC

\* ------------------------------------------------------------- bounds
\* Requests the server accepts in one behaviour, served one at a time.
MaxRequests == 2
\* Requests the server accepts in one behaviour when they may overlap.
MaxRaceRequests == 3

\* ------------------------------------------------------------ domains
Absent     == "undefined"   \* a field that is not in the form data / a null column
Null       == "null"        \* findUnique / verifyUserPassword found nothing
NoSession  == "anonymous"   \* the request carries no authenticated session
GoneId     == "u-gone"      \* id held by a session whose user record is gone

UserIds    == {"u1", "u2"}
SessionIds == UserIds \cup {GoneId}
Slots      == {1, 2}

Intents    == {"submit", "validate/username"}
FieldNames == {"name", "username", "email", "currentPassword", "newPassword"}

GoodUsernames == {"kody", "hannah", "newbie"}
BadUsername   == "k!"
GoodEmails    == {"kody@kcd.dev", "hannah@kcd.dev", "new@kcd.dev"}
GoodPasswords == {"kodylovesyou", "hannahrocks"}
ShortPassword == "abc"

\* the form payloads a client can post
Forms ==
    [ name            : {Absent, "Al"},
      username        : GoodUsernames \cup {Absent, BadUsername},
      email           : GoodEmails \cup {Absent},
      currentPassword : GoodPasswords \cup {Absent, ""},
      newPassword     : {Absent, "", ShortPassword, "hannahrocks"} ]

\* the payloads used when two requests are in flight together
RaceForms ==
    { f \in Forms : /\ f.name = Absent
                    /\ f.username \in GoodUsernames
                    /\ f.email \in GoodEmails \ {"new@kcd.dev"}
                    /\ f.currentPassword \in {Absent, "kodylovesyou"}
                    /\ f.newPassword \in {Absent, "hannahrocks"}
                    /\ f.currentPassword = Absent <=> f.newPassword = Absent }

VARIABLES
    users,     \* the user table: id -> record
    pc,        \* slot -> where the handler of the request in the slot stands
    req,       \* slot -> the request (route, session, form, intent)
    local,     \* slot -> the handler's local variables
    resp,      \* slot -> the response the handler produced
    started    \* requests accepted so far

vars == <<users, pc, req, local, resp, started>>

\* ------------------------------------------------- library behaviour
\* JavaScript truthiness of an optional string
Truthy(s) == s \notin {Absent, ""}

\* delete obj[key]
Delete(obj, key) == [k \in DOMAIN obj \ {key} |-> obj[k]]

\* getPasswordHash: a digest, not the password itself
getPasswordHash(p) == <<"bcrypt", p>>

\* verifyUserPassword({id}, password): the user or null
verifyUserPassword(tbl, id, password) ==
    IF id \in DOMAIN tbl /\ tbl[id].hash = getPasswordHash(password)
    THEN id ELSE Null

\* requireUserId(request): the session's user id, or a thrown login redirect
Authenticated(session) == session # NoSession

\* username / email / password / name formats
usernameSchema(s) == s \in GoodUsernames
emailSchema(s)    == s \in GoodEmails
passwordSchema(s) == s \in GoodPasswords
nameSchema(s)     == s \in {"Al", "Kody"}

\* ctx.addIssue({path, message}) under a condition
IssueIf(cond, path, message) == IF cond THEN {<<path, message>>} ELSE {}

\* the issues of the field schemas of ProfileFormSchema: name optional,
\* username and email required, each password a password or ''
BaseIssues(form) ==
    IssueIf(form.name # Absent /\ ~nameSchema(form.name), "name", "Invalid")
    \cup IssueIf(form.username = Absent, "username", "Required")
    \cup IssueIf(form.username # Absent /\ ~usernameSchema(form.username), "username", "Invalid")
    \cup IssueIf(form.email = Absent, "email", "Required")
    \cup IssueIf(form.email # Absent /\ ~emailSchema(form.email), "email", "Invalid")
    \cup IssueIf(form.currentPassword \notin {Absent, ""} /\ ~passwordSchema(form.currentPassword),
                 "currentPassword", "Invalid")
    \cup IssueIf(form.newPassword \notin {Absent, ""} /\ ~passwordSchema(form.newPassword),
                 "newPassword", "Invalid")

\* a required field is missing: the object parse aborts, and zod does not
\* run a refinement on an aborted parse
BaseAborted(form) == form.username = Absent \/ form.email = Absent

ProfileFormSchema(form) == [issues |-> BaseIssues(form), aborted |-> BaseAborted(form)]

\* the object of the fields a form carries: the payload of the submission,
\* and (no field schema transforms its input) the parsed value
Present(form) == [k \in {f \in FieldNames : form[f] # Absent} |-> form[k]]

\* prisma.user.findUnique({where: {username}, select: {id}})
FindByUsername(tbl, username) ==
    IF \E u \in DOMAIN tbl : tbl[u].username = username
    THEN CHOOSE u \in DOMAIN tbl : tbl[u].username = username
    ELSE Null

\* prisma.user.findUnique({where: {email}, select: {id}})
FindByEmail(tbl, email) ==
    IF \E u \in DOMAIN tbl : tbl[u].email = email
    THEN CHOOSE u \in DOMAIN tbl : tbl[u].email = email
    ELSE Null

\* variant: the select also returns the password hash
SelectUser_WithHash(tbl, id) ==
    [ id       |-> id,
      name     |-> tbl[id].name,
      username |-> tbl[id].username,
      email    |-> tbl[id].email,
      image    |-> tbl[id].image,
      hash     |-> tbl[id].hash ]

\* the loader's select: id, name, username, email, image.id
SelectUser(tbl, id) ==
    [ id       |-> id,
      name     |-> tbl[id].name,
      username |-> tbl[id].username,
      email    |-> tbl[id].email,
      image    |-> tbl[id].image ]

\* username and email are unique columns: an update that would duplicate
\* one is refused by the database
UniqueViolation(tbl, id, data) ==
    \E o \in DOMAIN tbl \ {id} :
        \/ tbl[o].username = data["username"]
        \/ tbl[o].email = data["email"]

\* the data of prisma.user.update: an undefined field is left as it is
UpdateData(row, data) ==
    [ row EXCEPT
        !.name     = IF "name" \in DOMAIN data THEN data["name"] ELSE @,
        !.username = data["username"],
        !.email    = data["email"],
        !.hash     = IF "newPassword" \in DOMAIN data /\ Truthy(data["newPassword"])
                     THEN getPasswordHash(data["newPassword"]) ELSE @ ]

\* ------------------------------------------------------------ state
NoResponse == [kind |-> "none"]

LocalInit ==
    [ userId           |-> Null,
      issues           |-> {},
      existingUsername |-> Null,
      existingEmail    |-> Null,
      user             |-> Null,
      log              |-> <<>> ]

NoRequest ==
    [ route |-> "none", session |-> NoSession, intent |-> "submit",
      form  |-> [f \in FieldNames |-> Absent] ]

InitUsers ==
    [ u \in UserIds |->
        IF u = "u1"
        THEN [ name |-> "Kody", username |-> "kody", email |-> "kody@kcd.dev",
               hash |-> getPasswordHash("kodylovesyou"), image |-> "img-kody" ]
        ELSE [ name |-> Absent, username |-> "hannah", email |-> "hannah@kcd.dev",
               hash |-> getPasswordHash("hannahrocks"), image |-> Absent ] ]

Init ==
    /\ users = InitUsers
    /\ pc = [r \in Slots |-> "idle"]
    /\ req = [r \in Slots |-> NoRequest]
    /\ local = [r \in Slots |-> LocalInit]
    /\ resp = [r \in Slots |-> NoResponse]
    /\ started = 0

Log(r, events) == [local[r] EXCEPT !.log = @ \o events]

\* --------------------------------------------------------- requests
\* a request for `route` arrives in a free slot; its handler starts at once
Arrive(r, route, forms, max) ==
    /\ pc[r] = "idle"
    /\ started < max
    /\ started' = started + 1
    /\ \E session \in SessionIds \cup {NoSession}, form \in forms, intent \in Intents :
         /\ route # "profile.action" => intent = "submit"
         /\ req' = [req EXCEPT ![r] = [route |-> route, session |-> session,
                                       intent |-> intent, form |-> form]]

\* the response has been sent; the slot is free again
End(r) ==
    /\ pc[r] = "done"
    /\ pc' = [pc EXCEPT ![r] = "idle"]
    /\ req' = [req EXCEPT ![r] = NoRequest]
    /\ local' = [local EXCEPT ![r] = LocalInit]
    /\ resp' = [resp EXCEPT ![r] = NoResponse]
    /\ UNCHANGED <<users, started>>

\* ---------------------------------------------- notes.new.tsx loader
\* variant: the loader answers without requiring a session
NewNoteLoader_NoAuth(r, max) ==
    /\ Arrive(r, "notes.new.loader", {NoRequest.form}, max)
    /\ local' = [local EXCEPT ![r] = Log(r, <<"return">>)]
    /\ resp' = [resp EXCEPT ![r] = [kind |-> "json", status |-> 200, body |-> <<>>]]
    /\ pc' = [pc EXCEPT ![r] = "done"]
    /\ UNCHANGED users

NewNoteLoader(r, max) ==
    /\ Arrive(r, "notes.new.loader", {NoRequest.form}, max)
    /\ IF Authenticated(req'[r].session)
       THEN /\ local' = [local EXCEPT ![r] =
                           [Log(r, <<"requireUserId", "return">>) EXCEPT !.userId = req'[r].session]]
            /\ resp' = [resp EXCEPT ![r] = [kind |-> "json", status |-> 200, body |-> <<>>]]
       ELSE /\ resp' = [resp EXCEPT ![r] =
                           [kind |-> "thrown", status |-> 302, location |-> "/login"]]
            /\ UNCHANGED local
    /\ pc' = [pc EXCEPT ![r] = "done"]
    /\ UNCHANGED users

\* ------------------------------------------------ profile edit loader
\* const userId = await requireUserId(request)
LoaderStart(r, max) ==
    /\ Arrive(r, "profile.loader", {NoRequest.form}, max)
    /\ IF Authenticated(req'[r].session)
       THEN /\ local' = [local EXCEPT ![r] =
                           [Log(r, <<"requireUserId">>) EXCEPT !.userId = req'[r].session]]
            /\ pc' = [pc EXCEPT ![r] = "loader.findUnique"]
            /\ UNCHANGED resp
       ELSE /\ resp' = [resp EXCEPT ![r] =
                           [kind |-> "thrown", status |-> 302, location |-> "/login"]]
            /\ pc' = [pc EXCEPT ![r] = "done"]
            /\ UNCHANGED local
    /\ UNCHANGED users

LoaderFindUnique(r) ==
    /\ pc[r] = "loader.findUnique"
    /\ LET userId == local[r].userId IN
       IF userId \in DOMAIN users
       THEN /\ resp' = [resp EXCEPT ![r] =
                          [kind |-> "json", status |-> 200,
                           body |-> [user |-> SelectUser(users, userId)]]]
            /\ local' = [local EXCEPT ![r] = Log(r, <<"user.findUnique", "return">>)]
       ELSE /\ resp' = [resp EXCEPT ![r] =
                          [kind |-> "thrown", status |-> 302, location |-> "/", logout |-> TRUE]]
            /\ local' = [local EXCEPT ![r] = Log(r, <<"user.findUnique", "throw">>)]
    /\ pc' = [pc EXCEPT ![r] = "done"]
    /\ UNCHANGED <<users, req, started>>

\* ------------------------------------------------ profile edit action
\* the messages of the refinement's issues
UsernameTaken     == "A user already exists with this username"
EmailTaken        == "A user already exists with this email"
NeedCurrent       == "Must provide current password to change password."
IncorrectPassword == "Incorrect password."

\* existingUsername && existingUsername.id !== userId
UsernameIssue(existing, userId) ==
    IssueIf(existing # Null /\ existing # userId, "username", UsernameTaken)

\* variant: the comparison of the ids is inverted
EmailIssue_Inverted(existing, userId) ==
    IssueIf(existing # Null /\ existing = userId, "email", EmailTaken)

\* existingEmail && existingEmail.id !== userId
EmailIssue(existing, userId) ==
    IssueIf(existing # Null /\ existing # userId, "email", EmailTaken)

\* variant: the guard asks for a current password instead of its absence
NewPasswordIssue_WrongGuard(currentPassword, newPassword) ==
    IssueIf(Truthy(newPassword) /\ Truthy(currentPassword), "newPassword", NeedCurrent)

\* newPassword && !currentPassword
NewPasswordIssue(currentPassword, newPassword) ==
    IssueIf(Truthy(newPassword) /\ ~Truthy(currentPassword), "newPassword", NeedCurrent)

\* currentPassword && newPassword
NeedsVerify(currentPassword, newPassword) ==
    Truthy(currentPassword) /\ Truthy(newPassword)

\* variant: the issue is raised when the password matches
CurrentPasswordIssue_Inverted(user) ==
    IssueIf(user # Null, "currentPassword", IncorrectPassword)

\* if (!user) ctx.addIssue(...)
CurrentPasswordIssue(user) ==
    IssueIf(user = Null, "currentPassword", IncorrectPassword)

\* the submission parse() resolves to, after the two deletes on its payload
Submission(intent, form, issues) ==
    [ intent   |-> intent,
      payload  |-> Delete(Delete(Present(form), "currentPassword"), "newPassword"),
      error    |-> issues,
      hasValue |-> issues = {},
      value    |-> IF issues = {} THEN Present(form) ELSE <<>> ]

\* variant: the value is returned as parsed
StripValue_Kept(submission) == submission

\* delete submission.value?.currentPassword / newPassword
StripValue(submission) ==
    [ submission EXCEPT !.value = Delete(Delete(@, "currentPassword"), "newPassword") ]

\* variant: the check for a missing value is left out
Outcome_NoValueCheck(submission) ==
    IF submission.intent # "submit" THEN "idle" ELSE "update"

\* which of the three exits of the action a submission takes
Outcome(submission) ==
    IF submission.intent # "submit" THEN "idle"
    ELSE IF ~submission.hasValue THEN "error"
    ELSE "update"

\* lines 105-116, run when parse() has resolved: the two early returns, or
\* on to the update; loc is the handler's local state at that point
Finish(r, request, loc) ==
    LET submission == Submission(request.intent, request.form, loc.issues) IN
      IF Outcome(submission) = "idle"
      THEN /\ resp' = [resp EXCEPT ![r] =
                         [kind |-> "json", status |-> 200,
                          body |-> [status |-> "idle", submission |-> StripValue(submission)]]]
           /\ local' = [local EXCEPT ![r] = [loc EXCEPT !.log = @ \o <<"return">>]]
           /\ pc' = [pc EXCEPT ![r] = "done"]
      ELSE IF Outcome(submission) = "error"
      THEN /\ resp' = [resp EXCEPT ![r] =
                         [kind |-> "json", status |-> 400,
                          body |-> [status |-> "error", submission |-> submission]]]
           /\ local' = [local EXCEPT ![r] = [loc EXCEPT !.log = @ \o <<"return">>]]
           /\ pc' = [pc EXCEPT ![r] = "done"]
      ELSE /\ pc' = [pc EXCEPT ![r] = "update"]
           /\ local' = [local EXCEPT ![r] = loc]
           /\ UNCHANGED resp

\* requireUserId, request.formData() and the field schemas of
\* ProfileFormSchema; the refinement is skipped when they abort
ActionStart(r, forms, max) ==
    /\ Arrive(r, "profile.action", forms, max)
    /\ IF ~Authenticated(req'[r].session)
       THEN /\ resp' = [resp EXCEPT ![r] =
                           [kind |-> "thrown", status |-> 302, location |-> "/login"]]
            /\ pc' = [pc EXCEPT ![r] = "done"]
            /\ UNCHANGED local
       ELSE LET base == ProfileFormSchema(req'[r].form)
                loc  == [Log(r, <<"requireUserId">>) EXCEPT
                           !.userId = req'[r].session,
                           !.issues = base.issues]
            IN IF base.aborted
               THEN Finish(r, req'[r], loc)
               ELSE /\ local' = [local EXCEPT ![r] = loc]
                    /\ pc' = [pc EXCEPT ![r] = "lookupUsername"]
                    /\ UNCHANGED resp
    /\ UNCHANGED users

ActionLookupUsername(r) ==
    /\ pc[r] = "lookupUsername"
    /\ LET existingUsername == FindByUsername(users, req[r].form.username) IN
         local' = [local EXCEPT ![r] =
                     [Log(r, <<"user.findUnique">>) EXCEPT
                        !.existingUsername = existingUsername,
                        !.issues = @ \cup UsernameIssue(existingUsername, local[r].userId)]]
    /\ pc' = [pc EXCEPT ![r] = "lookupEmail"]
    /\ UNCHANGED <<users, req, resp, started>>

\* the email lookup and the password guards up to the next await
ActionLookupEmail(r) ==
    /\ pc[r] = "lookupEmail"
    /\ LET existingEmail == FindByEmail(users, req[r].form.email)
           form == req[r].form
           loc  == [Log(r, <<"user.findUnique">>) EXCEPT
                      !.existingEmail = existingEmail,
                      !.issues = @ \cup EmailIssue(existingEmail, local[r].userId)
                                   \cup NewPasswordIssue(form.currentPassword, form.newPassword)]
       IN IF NeedsVerify(form.currentPassword, form.newPassword)
          THEN /\ local' = [local EXCEPT ![r] = loc]
               /\ pc' = [pc EXCEPT ![r] = "verify"]
               /\ UNCHANGED resp
          ELSE Finish(r, req[r], loc)
    /\ UNCHANGED <<users, req, started>>

ActionVerify(r) ==
    /\ pc[r] = "verify"
    /\ LET user == verifyUserPassword(users, local[r].userId, req[r].form.currentPassword)
           loc  == [Log(r, <<"verifyUserPassword">>) EXCEPT
                      !.user = user,
                      !.issues = @ \cup CurrentPasswordIssue(user)]
       IN Finish(r, req[r], loc)
    /\ UNCHANGED <<users, req, started>>

\* redirect(`/users/${updatedUser.username}`, {status: 302})
RedirectToUser(updatedUser) ==
    [kind |-> "redirect", status |-> 302, location |-> "/users/" \o updatedUser.username]

\* variant: the username read before the write
UpdatedUser_Stale(row, data) == [username |-> row.username]

\* what prisma.user.update resolves to: select {username} of the row written
UpdatedUser(row, data) == [username |-> UpdateData(row, data).username]

\* prisma.user.update and the redirect
ActionUpdate(r) ==
    /\ pc[r] = "update"
    /\ LET userId == local[r].userId
           data == Present(req[r].form)
       IN
         IF userId \notin DOMAIN users
         THEN /\ resp' = [resp EXCEPT ![r] =
                            [kind |-> "thrown", status |-> 500, error |-> "record not found"]]
              /\ local' = [local EXCEPT ![r] = Log(r, <<"user.update", "throw">>)]
              /\ UNCHANGED users
         ELSE IF UniqueViolation(users, userId, data)
         THEN /\ resp' = [resp EXCEPT ![r] =
                            [kind |-> "thrown", status |-> 500, error |-> "unique constraint"]]
              /\ local' = [local EXCEPT ![r] = Log(r, <<"user.update", "throw">>)]
              /\ UNCHANGED users
         ELSE /\ users' = [users EXCEPT ![userId] = UpdateData(@, data)]
              /\ resp' = [resp EXCEPT ![r] = RedirectToUser(UpdatedUser(users[userId], data))]
              /\ local' = [local EXCEPT ![r] = Log(r, <<"user.update", "return">>)]
    /\ pc' = [pc EXCEPT ![r] = "done"]
    /\ UNCHANGED <<req, started>>

\* --------------------------------------------------- specifications
Handlers(r, forms, max) ==
    \/ NewNoteLoader(r, max)
    \/ LoaderStart(r, max)
    \/ LoaderFindUnique(r)
    \/ ActionStart(r, forms, max)
    \/ ActionLookupUsername(r)
    \/ ActionLookupEmail(r)
    \/ ActionVerify(r)
    \/ ActionUpdate(r)
    \/ End(r)

\* one request at a time, any form payload
Next == \E r \in {1} : Handlers(r, Forms, MaxRequests)

Spec == Init /\ [][Next]_vars

\* requests overlap
RaceNext == \E r \in Slots : Handlers(r, RaceForms, MaxRaceRequests)

RaceSpec == Init /\ [][RaceNext]_vars

\* ============================================================ claims
Calls(r, event) == Cardinality({i \in DOMAIN local[r].log : local[r].log[i] = event})

InProfileAction(r) == pc[r] # "idle" /\ req[r].route = "profile.action"

\* the refinement has finished (or was never run) for the request in slot r
Parsed(r) == InProfileAction(r) /\ pc[r] \in {"update", "done"}

PasswordFields == {"currentPassword", "newPassword"}

Authed(r) == req[r].session # NoSession

\* this step is the prisma.user.update of the request in slot r
Writes(r) == pc[r] = "update" /\ pc'[r] = "done"

\* C1: in the three handlers nothing is read from or written to the user
\* table and nothing is returned before requireUserId has succeeded; a
\* request without a session reads nothing, writes nothing and gets no
\* json or redirect of a handler body.
C1_AuthFirst ==
    /\ [](\A r \in Slots :
            LET log == local[r].log IN
            /\ \A i \in DOMAIN log :
                  log[i] \in {"user.findUnique", "verifyUserPassword", "user.update", "return"}
                      => i > 1 /\ log[1] = "requireUserId"
            /\ (pc[r] # "idle" /\ ~Authed(r))
                  => /\ log = <<>>
                     /\ resp[r].kind \in {"none", "thrown"})
    /\ [][ users' # users =>
             \E r \in Slots :
                 Writes(r) /\ Authed(r) /\ local[r].log[1] = "requireUserId" ]_vars

C1_W_AnonymousTurnedAway ==
    \E r \in Slots :
        /\ pc[r] = "done"
        /\ req[r].session = NoSession
        /\ req[r].route = "notes.new.loader"
        /\ resp[r].kind = "thrown"

\* C2: the action calls prisma.user.update only for intent 'submit' with a
\* value and no issues; any other intent is answered 'idle', and a 'submit'
\* with an issue is answered 'error' with status 400, the record untouched.
C2_UpdateOnlyOnValidSubmit ==
    /\ [](\A r \in Slots :
            InProfileAction(r) =>
                /\ (pc[r] = "update" \/ Calls(r, "user.update") > 0)
                      => req[r].intent = "submit" /\ local[r].issues = {}
                /\ (pc[r] = "done" /\ Authed(r) /\ req[r].intent # "submit")
                      => /\ resp[r].kind = "json"
                         /\ resp[r].body.status = "idle"
                         /\ Calls(r, "user.update") = 0
                /\ (pc[r] = "done" /\ Authed(r)
                      /\ req[r].intent = "submit" /\ local[r].issues # {})
                      => /\ resp[r].kind = "json"
                         /\ resp[r].status = 400
                         /\ resp[r].body.status = "error"
                         /\ Calls(r, "user.update") = 0)
    /\ [][ users' # users =>
             \E r \in Slots :
                 /\ Writes(r)
                 /\ req[r].route = "profile.action"
                 /\ req[r].intent = "submit"
                 /\ local[r].issues = {} ]_vars

C2_W_SubmitWithIssueRejected ==
    \E r \in Slots :
        /\ InProfileAction(r)
        /\ pc[r] = "done"
        /\ req[r].intent = "submit"
        /\ local[r].issues # {}
        /\ resp[r].kind = "json"
        /\ resp[r].status = 400

\* another user's record holds the value the request submits for `field`
HeldByOther(r, field) ==
    \E o \in DOMAIN users \ {local[r].userId} : users[o][field] = req[r].form[field]

HasIssue(r, path, message) == <<path, message>> \in local[r].issues

\* C3 as stated: a submitted username (email) that another user holds
\* always gets the issue on 'username' ('email'), both lookups run on
\* every submission, and the record is not updated.
C3_Original ==
    \A r \in Slots :
        (Parsed(r) /\ Authed(r)) =>
            /\ HeldByOther(r, "username") => HasIssue(r, "username", UsernameTaken)
            /\ HeldByOther(r, "email") => HasIssue(r, "email", EmailTaken)
            /\ Calls(r, "user.findUnique") = 2
            /\ (HeldByOther(r, "username") \/ HeldByOther(r, "email"))
                  => pc[r] # "update" /\ Calls(r, "user.update") = 0

\* C3 (amended): for a submission that carries both a username and an
\* email, a username (email) that another user holds when it is looked up
\* gets the issue on 'username' ('email'), both lookups run, both issues
\* can be reported together, and the record is not updated; a submission
\* that lacks the username or the email is rejected without any lookup.
C3_UniquenessIssues ==
    /\ [](\A r \in Slots :
            (Parsed(r) /\ Authed(r)) =>
                /\ (req[r].form.username # Absent /\ req[r].form.email # Absent)
                      => Calls(r, "user.findUnique") = 2
                /\ (req[r].form.username = Absent \/ req[r].form.email = Absent)
                      => Calls(r, "user.findUnique") = 0 /\ local[r].issues # {}
                /\ (HasIssue(r, "username", UsernameTaken) \/ HasIssue(r, "email", EmailTaken))
                      => /\ pc[r] # "update" /\ Calls(r, "user.update") = 0
                         /\ pc[r] = "done" =>
                               /\ resp[r].kind = "json"
                               /\ resp[r].body.submission.error = local[r].issues)
    /\ [][ \A r \in Slots :
             /\ (pc[r] = "lookupUsername" /\ pc'[r] # "lookupUsername"
                    /\ HeldByOther(r, "username"))
                   => <<"username", UsernameTaken>> \in local'[r].issues
             /\ (pc[r] = "lookupEmail" /\ pc'[r] # "lookupEmail"
                    /\ HeldByOther(r, "email"))
                   => <<"email", EmailTaken>> \in local'[r].issues
             /\ (pc[r] \in {"lookupEmail", "verify"} /\ pc'[r] # "idle")
                   => local[r].issues \subseteq local'[r].issues ]_vars

C3_W_BothIssuesTogether ==
    \E r \in Slots :
        /\ InProfileAction(r)
        /\ pc[r] = "done"
        /\ resp[r].kind = "json"
        /\ resp[r].status = 400
        /\ <<"username", UsernameTaken>> \in resp[r].body.submission.error
        /\ <<"email", EmailTaken>> \in resp[r].body.submission.error

\* C4: the profile loader, for a session whose user record is gone, logs
\* out and redirects to '/', never answering json; for an existing record
\* it answers exactly the id, name, username, email and image id of it.
C4_LoaderAnswer ==
    /\ [](\A r \in Slots :
            (pc[r] = "done" /\ req[r].route = "profile.loader" /\ Authed(r)) =>
                IF resp[r].kind = "json"
                THEN /\ DOMAIN resp[r].body = {"user"}
                     /\ DOMAIN resp[r].body.user = {"id", "name", "username", "email", "image"}
                     /\ resp[r].body.user.id = req[r].session
                ELSE /\ resp[r].kind = "thrown"
                     /\ resp[r].location = "/"
                     /\ resp[r].logout)
    /\ [][ \A r \in Slots :
             (pc[r] = "loader.findUnique" /\ pc'[r] = "done") =>
                 IF req[r].session \in DOMAIN users
                 THEN /\ resp'[r].kind = "json"
                      /\ resp'[r].body.user.name = users[req[r].session].name
                      /\ resp'[r].body.user.username = users[req[r].session].username
                      /\ resp'[r].body.user.email = users[req[r].session].email
                      /\ resp'[r].body.user.image = users[req[r].session].image
                 ELSE resp'[r].kind = "thrown" ]_vars

C4_W_GoneUserLoggedOut ==
    \E r \in Slots :
        /\ pc[r] = "done"
        /\ req[r].route = "profile.loader"
        /\ req[r].session = GoneId
        /\ resp[r].kind = "thrown"
        /\ resp[r].location = "/"

\* C5: after a successful update the action answers 302 to
\* /users/<username>, the username the record holds after the update,
\* which is the one that was submitted.
C5_RedirectToNewUsername ==
    /\ [](\A r \in Slots :
            (InProfileAction(r) /\ pc[r] = "done" /\ resp[r].kind = "redirect") =>
                /\ resp[r].status = 302
                /\ resp[r].location = "/users/" \o req[r].form.username
                /\ Calls(r, "user.update") = 1)
    /\ [][ \A r \in Slots :
             Writes(r) =>
                 /\ users' # users => resp'[r].kind = "redirect"
                 /\ resp'[r].kind = "redirect" =>
                       /\ resp'[r].location = "/users/" \o users'[req[r].session].username
                       /\ users'[req[r].session].username = req[r].form.username ]_vars

C5_W_UsernameChanged ==
    \E r \in Slots :
        /\ InProfileAction(r)
        /\ pc[r] = "done"
        /\ started = 1
        /\ req[r].session = "u1"
        /\ users["u1"].username = "newbie"
        /\ resp[r].kind = "redirect"
        /\ resp[r].location = "/users/newbie"

\* C6: a user's password hash changes only in an action of that user that
\* submitted a non-empty newPassword and a non-empty currentPassword and
\* whose verifyUserPassword call succeeded; the password is verified at
\* most once per request.
C6_HashChangeNeedsVerifiedPassword ==
    /\ [](\A r \in Slots : Calls(r, "verifyUserPassword") <= 1)
    /\ [][ \A u \in UserIds :
             users'[u].hash # users[u].hash =>
                \E r \in Slots :
                    /\ pc[r] = "update" /\ pc'[r] = "done"
                    /\ req[r].route = "profile.action"
                    /\ local[r].userId = u
                    /\ Truthy(req[r].form.newPassword)
                    /\ Truthy(req[r].form.currentPassword)
                    /\ Calls(r, "verifyUserPassword") = 1
                    /\ local[r].user = u
                    /\ users'[u].hash = getPasswordHash(req[r].form.newPassword) ]_vars

C6_W_PasswordChanged ==
    \E r \in Slots :
        /\ pc[r] = "done"
        /\ req[r].session = "u1"
        /\ req[r].form.newPassword = "hannahrocks"
        /\ resp[r].kind = "redirect"
        /\ users["u1"].hash = getPasswordHash("hannahrocks")

\* C7 as stated: a submission with a non-empty newPassword and an empty or
\* absent currentPassword always gets the issue 'Must provide current
\* password to change password.' on 'newPassword', no password is
\* verified and the record is not updated.
C7_Original ==
    \A r \in Slots :
        (Parsed(r) /\ Authed(r)
            /\ Truthy(req[r].form.newPassword) /\ ~Truthy(req[r].form.currentPassword)) =>
                /\ HasIssue(r, "newPassword", NeedCurrent)
                /\ Calls(r, "verifyUserPassword") = 0
                /\ pc[r] # "update" /\ Calls(r, "user.update") = 0

\* C7 (amended): such a submission is always rejected, no password is
\* verified and the record is not updated; the issue on 'newPassword' is
\* reported when the submission carries both a username and an email.
C7_NewPasswordNeedsCurrent ==
    /\ [](\A r \in Slots :
            (Parsed(r) /\ Authed(r)
                /\ Truthy(req[r].form.newPassword) /\ ~Truthy(req[r].form.currentPassword)) =>
                    /\ (req[r].form.username # Absent /\ req[r].form.email # Absent)
                          => HasIssue(r, "newPassword", NeedCurrent)
                    /\ local[r].issues # {}
                    /\ Calls(r, "verifyUserPassword") = 0
                    /\ pc[r] # "update" /\ Calls(r, "user.update") = 0
                    /\ pc[r] = "done" =>
                          /\ resp[r].kind = "json"
                          /\ resp[r].body.submission.error = local[r].issues)
    /\ [][ users' # users =>
             \E r \in Slots :
                 /\ Writes(r)
                 /\ ~(Truthy(req[r].form.newPassword) /\ ~Truthy(req[r].form.currentPassword)) ]_vars

C7_W_NewPasswordAlone ==
    \E r \in Slots :
        /\ InProfileAction(r)
        /\ pc[r] = "done"
        /\ req[r].form.newPassword = "hannahrocks"
        /\ req[r].form.currentPassword = ""
        /\ resp[r].kind = "json"
        /\ resp[r].status = 400
        /\ <<"newPassword", NeedCurrent>> \in resp[r].body.submission.error

\* C8: no two records share a username or an email, and whenever an action
\* is about to call prisma.user.update no other user holds the username
\* or the email it writes.
C8_WriteNeverConflicts ==
    /\ \A u, v \in DOMAIN users :
          u # v => users[u].username # users[v].username /\ users[u].email # users[v].email
    /\ \A r \in Slots :
          (pc[r] = "update" /\ local[r].userId \in DOMAIN users) =>
              ~UniqueViolation(users, local[r].userId, Present(req[r].form))

\* C9: a 'submit' whose username and email were found to be the requesting
\* user's own, and that has no other issue, gets no uniqueness issue and
\* ends in the redirect.
C9_UnchangedProfileSucceeds ==
    \A r \in Slots :
        (Parsed(r) /\ Authed(r) /\ req[r].intent = "submit"
            /\ local[r].existingUsername = local[r].userId
            /\ local[r].existingEmail = local[r].userId
            /\ \A i \in local[r].issues : i[2] \in {UsernameTaken, EmailTaken}) =>
                /\ local[r].issues = {}
                /\ pc[r] = "done" => resp[r].kind = "redirect"

\* C10: no json answer of the action carries a submitted password, neither
\* in submission.payload nor in submission.value.
C10_NoPasswordEcho ==
    \A r \in Slots :
        (InProfileAction(r) /\ resp[r].kind = "json") =>
            LET submission == resp[r].body.submission IN
            /\ DOMAIN submission.payload \cap PasswordFields = {}
            /\ submission.hasValue => DOMAIN submission.value \cap PasswordFields = {}

C10_W_IdleWithValue ==
    \E r \in Slots :
        /\ InProfileAction(r)
        /\ resp[r].kind = "json"
        /\ resp[r].body.status = "idle"
        /\ resp[r].body.submission.hasValue
        /\ Truthy(req[r].form.currentPassword)
        /\ Truthy(req[r].form.newPassword)

====
